---------------------------- MODULE Spec2Model ----------------------------
(***************************************************************************)
(* dwmstatus (src/src/main.rs): five producer threads write one fragment   *)
(* each into the DisplayFields record behind Concurrency.lock and call     *)
(* Concurrency.condition.notify_one(); display_thread waits on the         *)
(* condition, composes the status string and hands it to the X root        *)
(* window.                                                                 *)
(*                                                                         *)
(* Glyphs of the source are written in ASCII: "(cal)" for the calendar,    *)
(* "(clk)" for the clock face, "(ac)" for the plug, "(bat)" for the        *)
(* battery, "(ram)", "(cpu)", "(tmp)", "(wifi)", "(wire)", "(mute)",       *)
(* "(spk1)".."(spk3)" for the three speakers, and " . " for the separator. *)
(***************************************************************************)
EXTENDS Integers, Sequences, FiniteSets, TLC

(***************************************************************************)
(* Bounds of the model.                                                    *)
(***************************************************************************)
\* The wall clock is kept modulo HorizonMinutes minutes.
HorizonMinutes == 2
\* Clock readings fall on multiples of MINUTE_MS \div TicksPerMinute.
TicksPerMinute == 2
\* Temperature and volume readings are drawn from MaxMetric + 1 steps.
MaxMetric == 1
\* Lines read_line may append to `line` before a matching one arrives.
MaxLine == 1

(***************************************************************************)
(* Program constants.                                                      *)
(***************************************************************************)
MINUTE_MS == 60000

Horizon == HorizonMinutes * MINUTE_MS
TickMs == MINUTE_MS \div TicksPerMinute

Err == [ok |-> FALSE]
Ok(v) == [ok |-> TRUE, val |-> v]

(***************************************************************************)
(* Number formatting, as format! does it.                                  *)
(***************************************************************************)
Digit(d) ==
    CASE d = 0 -> "0" [] d = 1 -> "1" [] d = 2 -> "2" [] d = 3 -> "3"
      [] d = 4 -> "4" [] d = 5 -> "5" [] d = 6 -> "6" [] d = 7 -> "7"
      [] d = 8 -> "8" [] OTHER -> "9"

RECURSIVE NatToStr(_)
NatToStr(n) == IF n < 10 THEN Digit(n) ELSE NatToStr(n \div 10) \o Digit(n % 10)

\* {:02}
Pad2(n) == IF n < 10 THEN "0" \o Digit(n) ELSE NatToStr(n)

\* {:.1} of a value given in tenths
Fixed1(tenths) == NatToStr(tenths \div 10) \o "." \o Digit(tenths % 10)

\* {:.2} of a value given in hundredths
Fixed2(hundredths) == NatToStr(hundredths \div 100) \o "." \o Pad2(hundredths % 100)

(***************************************************************************)
(* DisplayFields and its ToString.                                         *)
(***************************************************************************)
Slots == {"time", "systemstat", "temp", "net", "volume"}

EmptyFields ==
    [time |-> "", systemstat |-> "", temp |-> "", net |-> "", volume |-> ""]

\* mutant: the fields in the order the struct declares them
to_string_declared(f) == f.time \o f.systemstat \o f.temp \o f.net \o f.volume

to_string(f) == f.volume \o f.net \o f.systemstat \o f.temp \o f.time

(***************************************************************************)
(* time_thread: the fragment for a clock reading (ms since the epoch, UTC  *)
(* taken as the local zone) and the delay to the next minute.              *)
(***************************************************************************)
FormatTime(t) ==
    "(cal) Thu, 01 Jan (clk) " \o Pad2((t \div 3600000) % 24) \o "Z "
        \o Pad2((t \div 3600000) % 24) \o ":" \o Pad2((t \div MINUTE_MS) % 60)

\* mutant: a whole minute, wherever in the minute now_ts lies
SleepTimeMinute(now_ts) == MINUTE_MS

\* mutant: the delay to the boundary at or after now_ts
SleepTimeCeil(now_ts) ==
    ((now_ts + MINUTE_MS - 1) \div MINUTE_MS) * MINUTE_MS - now_ts

SleepTime(now_ts) == ((now_ts \div MINUTE_MS) + 1) * MINUTE_MS - now_ts

(***************************************************************************)
(* systemstat_thread: plugged, battery, ram, cpu.  A query result q is     *)
(* [bat, ac, mem, load], each Err or Ok(value); the battery capacity is in *)
(* permille, the used memory in GB, the load in hundredths.                *)
(***************************************************************************)
plugged(q) == IF q.ac.ok THEN (IF q.ac.val THEN "(ac)" ELSE "(bat)") ELSE "(ac)"

battery(q) ==
    IF q.bat.ok THEN plugged(q) \o " " \o Fixed1(q.bat.val) \o "% . " ELSE ""

\* mutant: a failed memory query leaves its part out, as battery does
ram_blank(q) == IF q.mem.ok THEN "(ram) " \o NatToStr(q.mem.val) \o " GB" ELSE ""

ram(q) == IF q.mem.ok THEN "(ram) " \o NatToStr(q.mem.val) \o " GB" ELSE "(ram) _"

cpu(q) == IF q.load.ok THEN "(cpu) " \o Fixed2(q.load.val) ELSE "(cpu) _"

StatFragment(q) == battery(q) \o ram(q) \o " . " \o cpu(q) \o " . "

(***************************************************************************)
(* sensors_thread: the fragment for a reading in tenths of a degree.       *)
(***************************************************************************)
TempFragment(v) == "(tmp) " \o Fixed1(v) \o " . "

(***************************************************************************)
(* network_thread: the glyphs, get_current_interface on the words of the   *)
(* output of `ip route get`, and the classification against wifs.          *)
(***************************************************************************)
wireless == "(wifi) . "
wired == "(wire) . "

\* \w+ takes in a whole name only when the name is made of word characters
IsWord(w) == w \notin {"br-lan"}

\* Regex "dev (\w+) ": the name after the first "dev" that is made of word
\* characters and is itself followed by a space, that is, by a further word.
get_current_interface(out) ==
    IF ~out.ok THEN Err
    ELSE LET hits == {i \in 1..Len(out.val) :
                         /\ out.val[i] = "dev" /\ i + 2 <= Len(out.val)
                         /\ IsWord(out.val[i + 1])}
         IN IF hits = {} THEN Err
            ELSE Ok(out.val[(CHOOSE i \in hits : \A j \in hits : i <= j) + 1])

\* mutant: the interface found is not looked up in wifs
NetSymbolAnyWireless(out, wifs) ==
    LET r == get_current_interface(out)
    IN IF r.ok THEN (IF wifs # {} THEN wireless ELSE wired) ELSE ""

NetSymbol(out, wifs) ==
    LET r == get_current_interface(out)
    IN IF r.ok THEN (IF r.val \in wifs THEN wireless ELSE wired) ELSE ""

(***************************************************************************)
(* volume_thread: volume() over the results of get_mute and get_volume,    *)
(* and the "on sink" match on the text read so far.                        *)
(***************************************************************************)
\* mutant: the level is looked at before the mute state
volume_level_first(mute, vol) ==
    IF vol.ok
    THEN (IF vol.val <= 33 THEN "(spk1)"
          ELSE IF vol.val <= 66 THEN "(spk2)" ELSE "(spk3)")
         \o " " \o NatToStr(vol.val) \o " . "
    ELSE IF mute.ok /\ mute.val THEN "(mute) . " ELSE ""

volume(mute, vol) ==
    IF mute.ok /\ mute.val THEN "(mute) . "
    ELSE IF vol.ok
         THEN (IF vol.val <= 33 THEN "(spk1)"
               ELSE IF vol.val <= 66 THEN "(spk2)" ELSE "(spk3)")
              \o " " \o NatToStr(vol.val) \o " . "
         ELSE ""

\* A line of `pactl subscribe` is its sequence of words; `line` is the sequence
\* of the lines read_line has appended.  Regex "on sink" matches inside a line:
\* the word "on" followed by a word that starts with "sink".
StartsWithSink(w) == w \in {"sink", "sink-input"}

LineMatches(l) ==
    \E k \in 1..Len(l) : l[k] = "on" /\ k + 1 <= Len(l) /\ StartsWithSink(l[k + 1])

\* mutant: any text read counts as a match
is_match_any(line) == Len(line) > 0

is_match(line) == \E i \in 1..Len(line) : LineMatches(line[i])

(***************************************************************************)
(* What the collaborators can answer.                                      *)
(***************************************************************************)
Steps == 0..MaxMetric

Results(vals) == {Err} \cup {Ok(v) : v \in vals}

\* all queries succeed, or memory alone fails
StatQueriesFew ==
    {[bat |-> Ok(1000), ac |-> Ok(TRUE), mem |-> m, load |-> Ok(105)] :
        m \in {Ok(8), Err}}

\* readings of the temperature input, in tenths of a degree
TempReadings == {395 + 10 * k : k \in Steps}

Interfaces == {"wlan0", "eth0"}

\* stdout of `ip route get 8.8.8.8`, word by word; Err: the command could not run
RouteOutputs ==
    {Err, Ok(<<>>)} \cup
    {Ok(<<"8.8.8.8", "via", "10.0.0.1", "dev", i, "src", "10.0.0.2", "uid", "1000">>) :
        i \in Interfaces \cup {"br-lan"}}

\* answers of `pamixer --get-mute` and `pamixer --get-volume`
VolumeLevels == {33 + k : k \in Steps} \cup {66 + k : k \in Steps}

VolumeQueriesAll == Results(BOOLEAN) \X Results(VolumeLevels)

VolumeQueriesFew == {<<Ok(TRUE), Ok(34)>>, <<Ok(FALSE), Ok(34)>>}

\* lines of `pactl subscribe`
EventLines ==
    {<<"Event", "'change'", "on", "sink", "#0">>,
     <<"Event", "'change'", "on", "sink-input", "#3">>,
     <<"Event", "'new'", "on", "client", "#5">>}

\* time that may pass between two clock readings, and past the end of a sleep
Elapsed == {0, TickMs}

\* values of now_ts on, next to and between the minute boundaries
NowSamples ==
    {k * MINUTE_MS + e : k \in 0..HorizonMinutes, e \in {0, 1, TickMs, MINUTE_MS - 1}}

(***************************************************************************)
(* State.                                                                  *)
(***************************************************************************)
VARIABLES
    df,          \* Concurrency.lock's DisplayFields
    lock,        \* the thread holding Concurrency.lock, or "free"
    pc,          \* where each thread is
    new,         \* new_time, new_stat, new_temp, new_symbol, new_volume
    clock,       \* the wall clock at its last reading, ms
    sleep_time,  \* time_thread's sleep_time
    wifs,        \* network_thread's wifs
    netStream,   \* stdout of `ip monitor`: "none", "open" or "eof"
    volStream,   \* stdout of `pactl subscribe`: "none", "open" or "eof"
    line,        \* volume_thread's line
    new_status,  \* display_thread's new_status
    snap,        \* history: DisplayFields when new_status was composed
    statq,       \* history: the answers behind new_stat
    routeq,      \* history: the answer of `ip route get` behind new_symbol
    volq,        \* history: the answers of pamixer behind new_volume
    wrote,       \* history: the clock reading before the last write of df.time
    notified,    \* history: the last step called notify_one
    unobserved,  \* history: notify_one was called since the last composition
    changed,     \* history: a slot's content changed since the last composition
    inflight     \* history: new_status holds a change not yet handed to the sink

vars ==
    <<df, lock, pc, new, clock, sleep_time, wifs, netStream, volStream, line,
      new_status, snap, statq, routeq, volq, wrote, notified, unobserved, changed,
      inflight>>

Producers == {"time", "systemstat", "sensors", "network", "volume"}

\* the thread whose critical section assigns the slot
Owner ==
    [time |-> "time", systemstat |-> "systemstat", temp |-> "sensors",
     net |-> "network", volume |-> "volume"]

NoQuery == [bat |-> Err, ac |-> Err, mem |-> Err, load |-> Err]

Init ==
    /\ df = EmptyFields
    /\ lock = "free"
    /\ pc = [time |-> "format", systemstat |-> "poll", sensors |-> "discover",
             network |-> "wireless", volume |-> "spawn", display |-> "connect"]
    /\ new = EmptyFields
    /\ clock \in {k * TickMs : k \in 0..(TicksPerMinute - 1)}
    /\ sleep_time = 0
    /\ wifs = {}
    /\ netStream = "none"
    /\ volStream = "none"
    /\ line = <<>>
    /\ new_status = ""
    /\ snap = EmptyFields
    /\ statq = NoQuery
    /\ routeq = Err
    /\ volq = <<Err, Err>>
    /\ wrote = 0
    /\ notified = FALSE
    /\ unobserved = FALSE
    /\ changed = FALSE
    /\ inflight = FALSE

\* a failed unwrap in display_thread (the main thread) ends the process
Running == pc.display # "aborted"

(***************************************************************************)
(* The critical sections of the producers.                                 *)
(***************************************************************************)
\* mutant: the notification is left out
notify_none(p) == p

\* Condvar::notify_one: wakes display_thread if it is blocked in wait
notify_one(p) == IF p.display = "waiting" THEN [p EXCEPT !.display = "woken"] ELSE p

\* mutant: the whole record is replaced, the other slots are lost
WriteNotifyClearing(t, slot, next) ==
    /\ df' = [EmptyFields EXCEPT ![slot] = new[slot]]
    /\ pc' = [notify_one(pc) EXCEPT ![t] = next]
    /\ lock' = "free"
    /\ new' = [new EXCEPT ![slot] = ""]
    /\ notified' = TRUE
    /\ unobserved' = TRUE
    /\ changed' = (changed \/ df[slot] # new[slot])

\* df.slot = new_..., notify_one(), and the guard dropped; the thread goes to `next`
WriteNotify(t, slot, next) ==
    /\ df' = [df EXCEPT ![slot] = new[slot]]
    /\ pc' = [notify_one(pc) EXCEPT ![t] = next]
    /\ lock' = "free"
    /\ new' = [new EXCEPT ![slot] = ""]
    /\ notified' = TRUE
    /\ unobserved' = TRUE
    /\ changed' = (changed \/ df[slot] # new[slot])

\* mutant: the comparison is left out
WriteAlways(t, slot, next) == WriteNotify(t, slot, next)

\* if df.slot != new_... { df.slot = new_...; notify_one() }
WriteIfChanged(t, slot, next) ==
    IF df[slot] # new[slot]
    THEN WriteNotify(t, slot, next)
    ELSE /\ pc' = [pc EXCEPT ![t] = next]
         /\ lock' = "free"
         /\ new' = [new EXCEPT ![slot] = ""]
         /\ notified' = FALSE
         /\ UNCHANGED <<df, unobserved, changed>>

(***************************************************************************)
(* time_thread                                                             *)
(***************************************************************************)
TimeFormat(elapsed) ==
    /\ Running /\ pc.time = "format" /\ lock = "free"
    /\ \E d \in elapsed :
         /\ clock' = (clock + d) % Horizon
         /\ new' = [new EXCEPT !.time = FormatTime(clock')]
    /\ lock' = "time"
    /\ pc' = [pc EXCEPT !.time = "crit"]
    /\ notified' = FALSE
    /\ UNCHANGED <<df, sleep_time, wrote, wifs, netStream, volStream, line, new_status,
                   snap, statq, routeq, volq, unobserved, changed, inflight>>

\* the write, then `now`, `now_ts`, `next_ts` and `sleep_time`
TimeWrite(elapsed) ==
    /\ Running /\ pc.time = "crit"
    /\ WriteNotify("time", "time", "sleep")
    /\ wrote' = clock
    /\ \E d \in elapsed :
         /\ clock' = (clock + d) % Horizon
         /\ sleep_time' = SleepTime(clock')
    /\ UNCHANGED <<wifs, netStream, volStream, line, new_status, snap, statq, routeq, volq,
                   inflight>>

\* thread::sleep(sleep_time) returns after sleep_time or later
TimeWake(elapsed) ==
    /\ Running /\ pc.time = "sleep"
    /\ \E late \in elapsed : clock' = (clock + sleep_time + late) % Horizon
    /\ sleep_time' = 0
    /\ wrote' = 0
    /\ pc' = [pc EXCEPT !.time = "format"]
    /\ notified' = FALSE
    /\ UNCHANGED <<df, lock, new, wifs, netStream, volStream, line, new_status,
                   snap, statq, routeq, volq, unobserved, changed, inflight>>

time_thread(elapsed) == TimeFormat(elapsed) \/ TimeWrite(elapsed) \/ TimeWake(elapsed)

(***************************************************************************)
(* systemstat_thread                                                       *)
(***************************************************************************)
SystemstatPoll(queries) ==
    /\ Running /\ pc.systemstat \in {"poll", "sleep"} /\ lock = "free"
    /\ \E q \in queries :
         /\ statq' = q
         /\ new' = [new EXCEPT !.systemstat = StatFragment(q)]
    /\ lock' = "systemstat"
    /\ pc' = [pc EXCEPT !.systemstat = "crit"]
    /\ notified' = FALSE
    /\ UNCHANGED <<df, clock, sleep_time, wrote, wifs, netStream, volStream, line,
                   new_status, snap, routeq, volq, unobserved, changed, inflight>>

SystemstatWrite ==
    /\ Running /\ pc.systemstat = "crit"
    /\ WriteIfChanged("systemstat", "systemstat", "sleep")
    /\ statq' = NoQuery
    /\ UNCHANGED <<clock, sleep_time, wrote, wifs, netStream, volStream, line, new_status,
                   snap, routeq, volq, inflight>>

systemstat_thread(queries) == SystemstatPoll(queries) \/ SystemstatWrite

(***************************************************************************)
(* sensors_thread                                                          *)
(***************************************************************************)
\* find_cpu_temp: Some(subfeature) or None; on None the thread returns
SensorsDiscover ==
    /\ Running /\ pc.sensors = "discover"
    /\ \E found \in BOOLEAN :
         pc' = [pc EXCEPT !.sensors = IF found THEN "poll" ELSE "done"]
    /\ notified' = FALSE
    /\ UNCHANGED <<df, lock, new, clock, sleep_time, wrote, wifs, netStream, volStream,
                   line, new_status, snap, statq, routeq, volq, unobserved, changed,
                   inflight>>

\* mutant: the loop is entered whether or not a channel was found
SensorsPollUnguarded(readings) ==
    /\ Running /\ pc.sensors \in {"poll", "sleep", "done"} /\ lock = "free"
    /\ \E v \in readings : new' = [new EXCEPT !.temp = TempFragment(v)]
    /\ lock' = "sensors"
    /\ pc' = [pc EXCEPT !.sensors = "crit"]
    /\ notified' = FALSE
    /\ UNCHANGED <<df, clock, sleep_time, wrote, wifs, netStream, volStream, line,
                   new_status, snap, statq, routeq, volq, unobserved, changed, inflight>>

\* temp_sensor.get_value() is Ok
SensorsPoll(readings) ==
    /\ Running /\ pc.sensors \in {"poll", "sleep"} /\ lock = "free"
    /\ \E v \in readings : new' = [new EXCEPT !.temp = TempFragment(v)]
    /\ lock' = "sensors"
    /\ pc' = [pc EXCEPT !.sensors = "crit"]
    /\ notified' = FALSE
    /\ UNCHANGED <<df, clock, sleep_time, wrote, wifs, netStream, volStream, line,
                   new_status, snap, statq, routeq, volq, unobserved, changed, inflight>>

\* mutant: the sensor is read, and the unwrap fails, inside the critical section
SensorsPollFailLocked ==
    /\ Running /\ pc.sensors \in {"poll", "sleep"} /\ lock = "free"
    /\ lock' = "sensors"
    /\ pc' = [pc EXCEPT !.sensors = "panic: get_value"]
    /\ notified' = FALSE
    /\ UNCHANGED <<df, new, clock, sleep_time, wrote, wifs, netStream, volStream,
                   line, new_status, snap, statq, routeq, volq, unobserved, changed,
                   inflight>>

\* temp_sensor.get_value() is Err: unwrap panics, the thread ends
SensorsPollFail ==
    /\ Running /\ pc.sensors \in {"poll", "sleep"}
    /\ pc' = [pc EXCEPT !.sensors = "panic: get_value"]
    /\ notified' = FALSE
    /\ UNCHANGED <<df, lock, new, clock, sleep_time, wrote, wifs, netStream, volStream,
                   line, new_status, snap, statq, routeq, volq, unobserved, changed,
                   inflight>>

SensorsWrite ==
    /\ Running /\ pc.sensors = "crit"
    /\ WriteIfChanged("sensors", "temp", "sleep")
    /\ UNCHANGED <<clock, sleep_time, wrote, wifs, netStream, volStream, line, new_status,
                   snap, statq, routeq, volq, inflight>>

sensors_thread(readings) ==
    SensorsDiscover \/ SensorsPoll(readings) \/ SensorsPollFail \/ SensorsWrite

(***************************************************************************)
(* network_thread                                                          *)
(***************************************************************************)
\* get_wireless_interfaces: the names in /proc/net/wireless, or a panic when
\* the file cannot be opened
NetWireless(sets) ==
    /\ Running /\ pc.network = "wireless"
    /\ \/ \E w \in sets :
            /\ wifs' = w
            /\ pc' = [pc EXCEPT !.network = "spawn"]
       \/ /\ pc' = [pc EXCEPT !.network = "panic: open"]
          /\ UNCHANGED wifs
    /\ notified' = FALSE
    /\ UNCHANGED <<df, lock, new, clock, sleep_time, wrote, netStream, volStream, line,
                   new_status, snap, statq, routeq, volq, unobserved, changed, inflight>>

\* Command::new("ip") ... spawn().unwrap()
NetSpawn ==
    /\ Running /\ pc.network = "spawn"
    /\ \/ /\ netStream' = "open"
          /\ pc' = [pc EXCEPT !.network = "eval"]
       \/ /\ pc' = [pc EXCEPT !.network = "panic: spawn"]
          /\ UNCHANGED netStream
    /\ notified' = FALSE
    /\ UNCHANGED <<df, lock, new, clock, sleep_time, wrote, wifs, volStream, line,
                   new_status, snap, statq, routeq, volq, unobserved, changed, inflight>>

NetEval(outputs) ==
    /\ Running /\ pc.network = "eval" /\ lock = "free"
    /\ \E out \in outputs :
         /\ routeq' = out
         /\ new' = [new EXCEPT !.net = NetSymbol(out, wifs)]
    /\ lock' = "network"
    /\ pc' = [pc EXCEPT !.network = "crit"]
    /\ notified' = FALSE
    /\ UNCHANGED <<df, clock, sleep_time, wrote, wifs, netStream, volStream, line,
                   new_status, snap, statq, volq, unobserved, changed, inflight>>

NetWrite ==
    /\ Running /\ pc.network = "crit"
    /\ WriteNotify("network", "net", "read")
    /\ routeq' = Err
    /\ UNCHANGED <<clock, sleep_time, wrote, wifs, netStream, volStream, line, new_status,
                   snap, statq, volq, inflight>>

\* stdout.read(&mut buffer).unwrap(): Ok(n > 0) on a chunk, Ok(0) at and after
\* the end of the stream, Err a panic; every Ok goes round the loop
NetRead ==
    /\ Running /\ pc.network = "read"
    /\ \/ /\ netStream = "open"
          /\ pc' = [pc EXCEPT !.network = "eval"]
          /\ UNCHANGED netStream
       \/ /\ netStream' = "eof"
          /\ pc' = [pc EXCEPT !.network = "eval"]
       \/ /\ pc' = [pc EXCEPT !.network = "panic: read"]
          /\ UNCHANGED netStream
    /\ notified' = FALSE
    /\ UNCHANGED <<df, lock, new, clock, sleep_time, wrote, wifs, volStream, line,
                   new_status, snap, statq, routeq, volq, unobserved, changed, inflight>>

network_thread(sets, outputs) ==
    NetWireless(sets) \/ NetSpawn \/ NetEval(outputs) \/ NetWrite \/ NetRead

(***************************************************************************)
(* volume_thread                                                           *)
(***************************************************************************)
\* Command::new("pactl") ... spawn().unwrap()
VolSpawn ==
    /\ Running /\ pc.volume = "spawn"
    /\ \/ /\ volStream' = "open"
          /\ pc' = [pc EXCEPT !.volume = "sample"]
       \/ /\ pc' = [pc EXCEPT !.volume = "panic: spawn"]
          /\ UNCHANGED volStream
    /\ notified' = FALSE
    /\ UNCHANGED <<df, lock, new, clock, sleep_time, wrote, wifs, netStream, line,
                   new_status, snap, statq, routeq, volq, unobserved, changed, inflight>>

VolSample(queries) ==
    /\ Running /\ pc.volume = "sample" /\ lock = "free"
    /\ \E q \in queries :
         /\ volq' = q
         /\ new' = [new EXCEPT !.volume = volume(q[1], q[2])]
    /\ lock' = "volume"
    /\ pc' = [pc EXCEPT !.volume = "crit"]
    /\ notified' = FALSE
    /\ UNCHANGED <<df, clock, sleep_time, wrote, wifs, netStream, volStream, line,
                   new_status, snap, statq, routeq, unobserved, changed, inflight>>

\* the write, then `let mut line = String::new()`
VolWrite ==
    /\ Running /\ pc.volume = "crit"
    /\ WriteIfChanged("volume", "volume", "read")
    /\ line' = <<>>
    /\ volq' = <<Err, Err>>
    /\ UNCHANGED <<clock, sleep_time, wrote, wifs, netStream, volStream, new_status, snap,
                   statq, routeq, inflight>>

\* one turn of `while !re.is_match(&line)`: read_line appends a line, or
\* returns 0 at the end of the stream (break 'events), or fails (panic); the
\* text read stays in `line` until the next `let mut line = String::new()`
VolReadLine(lines) ==
    /\ Running /\ pc.volume = "read"
    /\ \/ /\ volStream = "open"
          /\ \E l \in lines :
               /\ LineMatches(l) \/ Len(line) < MaxLine
               /\ line' = Append(line, l)
               /\ IF is_match(line')
                  THEN pc' = [pc EXCEPT !.volume = "sample"]
                  ELSE UNCHANGED pc
          /\ UNCHANGED volStream
       \/ /\ volStream' = "eof"
          /\ line' = <<>>
          /\ pc' = [pc EXCEPT !.volume = "wait"]
       \/ /\ pc' = [pc EXCEPT !.volume = "panic: read_line"]
          /\ UNCHANGED <<volStream, line>>
    /\ notified' = FALSE
    /\ UNCHANGED <<df, lock, new, clock, sleep_time, wrote, wifs, netStream, new_status,
                   snap, statq, routeq, volq, unobserved, changed, inflight>>

\* monitor.wait().unwrap(), then round the outer loop
VolWait ==
    /\ Running /\ pc.volume = "wait"
    /\ \/ pc' = [pc EXCEPT !.volume = "spawn"]
       \/ pc' = [pc EXCEPT !.volume = "panic: wait"]
    /\ volStream' = "none"
    /\ notified' = FALSE
    /\ UNCHANGED <<df, lock, new, clock, sleep_time, wrote, wifs, netStream, line,
                   new_status, snap, statq, routeq, volq, unobserved, changed, inflight>>

volume_thread(queries, lines) ==
    VolSpawn \/ VolSample(queries) \/ VolWrite \/ VolReadLine(lines) \/ VolWait

(***************************************************************************)
(* display_thread                                                          *)
(***************************************************************************)
\* xcb::Connection::connect(None).unwrap() and the screen lookup
DisplayConnect ==
    /\ pc.display = "connect"
    /\ \/ pc' = [pc EXCEPT !.display = "lock"]
       \/ pc' = [pc EXCEPT !.display = "aborted"]
    /\ notified' = FALSE
    /\ UNCHANGED <<df, lock, new, clock, sleep_time, wrote, wifs, netStream, volStream,
                   line, new_status, snap, statq, routeq, volq, unobserved, changed,
                   inflight>>

\* conc.lock.lock() and conc.condition.wait(df): the lock is taken and given
\* up again as the thread blocks
DisplayWait ==
    /\ pc.display = "lock" /\ lock = "free"
    /\ pc' = [pc EXCEPT !.display = "waiting"]
    /\ notified' = FALSE
    /\ UNCHANGED <<df, lock, new, clock, sleep_time, wrote, wifs, netStream, volStream,
                   line, new_status, snap, statq, routeq, volq, unobserved, changed,
                   inflight>>

\* Condvar::wait may return without a notification
SpuriousWake ==
    /\ pc.display = "waiting"
    /\ pc' = [pc EXCEPT !.display = "woken"]
    /\ notified' = FALSE
    /\ UNCHANGED <<df, lock, new, clock, sleep_time, wrote, wifs, netStream, volStream,
                   line, new_status, snap, statq, routeq, volq, unobserved, changed,
                   inflight>>

\* wait returns once it has the lock again
DisplayWake ==
    /\ pc.display = "woken" /\ lock = "free"
    /\ lock' = "display"
    /\ pc' = [pc EXCEPT !.display = "compose"]
    /\ notified' = FALSE
    /\ UNCHANGED <<df, new, clock, sleep_time, wrote, wifs, netStream, volStream, line,
                   new_status, snap, statq, routeq, volq, unobserved, changed, inflight>>

\* mutant: the guard lives on through change_property and flush
DisplayComposeHolding ==
    /\ pc.display = "compose"
    /\ new_status' = to_string(df)
    /\ snap' = df
    /\ pc' = [pc EXCEPT !.display = "render"]
    /\ unobserved' = FALSE
    /\ inflight' = changed
    /\ changed' = FALSE
    /\ notified' = FALSE
    /\ UNCHANGED <<df, lock, new, clock, sleep_time, wrote, wifs, netStream, volStream,
                   line, statq, routeq, volq>>

\* new_status = df.to_string(), and the guard dropped
DisplayCompose ==
    /\ pc.display = "compose"
    /\ new_status' = to_string(df)
    /\ snap' = df
    /\ lock' = "free"
    /\ pc' = [pc EXCEPT !.display = "render"]
    /\ unobserved' = FALSE
    /\ inflight' = changed
    /\ changed' = FALSE
    /\ notified' = FALSE
    /\ UNCHANGED <<df, new, clock, sleep_time, wrote, wifs, netStream, volStream, line,
                   statq, routeq, volq>>

\* change_property(.., new_status) and flush: the string is handed to the sink
DisplayRender ==
    /\ pc.display = "render"
    /\ new_status' = ""
    /\ snap' = EmptyFields
    /\ inflight' = FALSE
    /\ pc' = [pc EXCEPT !.display = "lock"]
    /\ notified' = FALSE
    /\ UNCHANGED <<df, lock, new, clock, sleep_time, wrote, wifs, netStream, volStream,
                   line, statq, routeq, volq, unobserved, changed>>

display_thread ==
    DisplayConnect \/ DisplayWait \/ SpuriousWake \/ DisplayWake \/ DisplayCompose
        \/ DisplayRender

(***************************************************************************)
(* The program: main spawns the five producers and runs display_thread.    *)
(***************************************************************************)
\* display_thread with a wait that returns on notify_one alone
display_thread_notified ==
    DisplayConnect \/ DisplayWait \/ DisplayWake \/ DisplayCompose \/ DisplayRender

\* the unwraps that can fail once a producer is in its loop
LoopPanics ==
    {"panic: get_value", "panic: read", "panic: read_line", "panic: wait"}

\* every failed unwrap of a producer
ProducerPanics == LoopPanics \cup {"panic: open", "panic: spawn"}

(***************************************************************************)
(* The program: main spawns the five producers and runs display_thread.    *)
(* In Spec every collaborator has one answer when it succeeds, and no time *)
(* passes between two clock readings.                                      *)
(***************************************************************************)
StatNominal == {[bat |-> Ok(1000), ac |-> Ok(TRUE), mem |-> Ok(8), load |-> Ok(105)]}

RouteNominal == {Ok(<<"8.8.8.8", "via", "10.0.0.1", "dev", "wlan0", "src", "10.0.0.2">>)}

VolumeNominal == {<<Ok(FALSE), Ok(34)>>}

LinesNominal == {<<"Event", "'change'", "on", "sink", "#0">>}

Next ==
    \/ time_thread({0})
    \/ systemstat_thread(StatNominal)
    \/ sensors_thread({395})
    \/ network_thread({{"wlan0"}}, RouteNominal)
    \/ volume_thread(VolumeNominal, LinesNominal)
    \/ display_thread

Spec == Init /\ [][Next]_vars

(***************************************************************************)
(* The polling and dedup side: systemstat, sensors and volume with answers *)
(* that vary from one sample to the next.                                  *)
(***************************************************************************)
NextPoll ==
    \/ systemstat_thread(StatQueriesFew)
    \/ sensors_thread(TempReadings)
    \/ volume_thread(VolumeQueriesFew, EventLines)
    \/ display_thread

SpecPoll == Init /\ [][NextPoll]_vars

(***************************************************************************)
(* systemstat with every mix of failing queries, beside the clock.         *)
(***************************************************************************)
StatQueriesDegrading ==
    [bat : {Err, Ok(1000)}, ac : Results(BOOLEAN), mem : {Err, Ok(8)},
     load : {Err, Ok(105)}]

NextStat ==
    \/ time_thread({0})
    \/ systemstat_thread(StatQueriesDegrading)
    \/ display_thread

SpecStat == Init /\ [][NextStat]_vars

(***************************************************************************)
(* network_thread with every route answer and wireless set.                *)
(***************************************************************************)
NextNet ==
    \/ network_thread(SUBSET Interfaces, RouteOutputs)
    \/ display_thread_notified

SpecNet == Init /\ [][NextNet]_vars

(***************************************************************************)
(* The clock with time passing between its readings and past a wake-up.    *)
(***************************************************************************)
NextClock ==
    \/ time_thread(Elapsed)
    \/ display_thread

SpecClock == Init /\ [][NextClock]_vars

(***************************************************************************)
(* volume_thread with every answer of the two pamixer queries.             *)
(***************************************************************************)
NextVolume ==
    \/ volume_thread(VolumeQueriesAll, EventLines)
    \/ display_thread

SpecVolume == Init /\ [][NextVolume]_vars

(***************************************************************************)
(* Fair scheduling: a thread that can step does, and a thread that asks    *)
(* for the lock again and again gets it.                                   *)
(***************************************************************************)
NextLive ==
    \/ time_thread({0})
    \/ systemstat_thread(StatQueriesFew)
    \/ sensors_thread({395})
    \/ display_thread

Fairness ==
    /\ SF_vars(TimeFormat({0})) /\ WF_vars(TimeWrite({0})) /\ WF_vars(TimeWake({0}))
    /\ SF_vars(SystemstatPoll(StatQueriesFew)) /\ WF_vars(SystemstatWrite)
    /\ WF_vars(SensorsDiscover) /\ SF_vars(SensorsPoll({395}))
    /\ WF_vars(SensorsWrite)
    /\ WF_vars(DisplayConnect) /\ SF_vars(DisplayWait) /\ SF_vars(DisplayWake)
    /\ WF_vars(DisplayCompose) /\ WF_vars(DisplayRender)

LiveSpec == Init /\ [][NextLive]_vars /\ Fairness

(***************************************************************************)
(* The claims.                                                             *)
(***************************************************************************)
Connected == pc.display \notin {"connect", "aborted"}

\* C1 (as claimed): the wait loses no wake-up: display_thread is never blocked
\* in condition.wait while a write and notify_one made since its last
\* composition, at a moment it was not blocked, is still unobserved.
C1_NoLostWakeup == pc.display = "waiting" => ~unobserved

\* C2: under fair scheduling, once the sink is connected every change of a
\* slot's content is followed by a composition (which reads all five slots,
\* so this value or a later one of the slot), and every composed string that
\* holds a change is handed to the sink.
C2_ChangeReachesSink ==
    /\ (Connected /\ changed) ~> inflight
    /\ inflight ~> ~inflight

C2_Witness ==
    /\ pc.display = "render" /\ inflight
    /\ snap.systemstat # "" /\ snap.time # "" /\ snap.temp # ""

\* C3: the string handed to the sink is the concatenation, in the order
\* volume, net, systemstat, temp, time, of the five slots as they were at the
\* one moment of composition, whatever the order the writes came in.
C3_ComposedInFixedOrder ==
    pc.display = "render" =>
        new_status = snap.volume \o snap.net \o snap.systemstat \o snap.temp \o snap.time

C3_Witness ==
    /\ pc.display = "render"
    /\ \A slot \in Slots : snap[slot] # ""

\* C4: a critical section of systemstat, sensors or volume leaves the slot
\* equal to the sample; when the sample equals what the slot holds it changes
\* no slot, calls no notify_one and wakes nobody, so of two successive equal
\* samples only the first can write or notify.
C4_DedupLaw ==
    [][\A x \in {<<"systemstat", "systemstat">>, <<"sensors", "temp">>,
                 <<"volume", "volume">>} :
          (pc[x[1]] = "crit" /\ pc'[x[1]] # "crit") =>
              /\ df'[x[2]] = new[x[2]]
              /\ new[x[2]] = df[x[2]] =>
                    /\ df' = df
                    /\ to_string(df') = to_string(df)
                    /\ ~notified'
                    /\ unobserved' = unobserved
                    /\ pc'.display = pc.display]_vars

C4_Witness ==
    /\ pc.volume = "crit" /\ new.volume = df.volume /\ df.volume # ""
    /\ df.systemstat # "" /\ df.temp # ""

\* C5 (as claimed): a critical section of network_thread whose new_symbol
\* equals what the net slot holds calls no notify_one.
C5_NetWriteIfChanged ==
    [][(pc.network = "crit" /\ pc'.network # "crit" /\ new.net = df.net)
          => ~notified']_vars

\* C6 (as claimed): whenever display_thread has woken, the content of some
\* slot changed since its previous wake.
C6_WakeOnlyAfterChange == pc.display = "compose" => changed

\* C7 (as claimed): no failed read, query or subprocess inside a producer's
\* loop ends the producer.
C7_ProducersKeepLooping == \A t \in Producers : pc[t] \notin LoopPanics

C9_RespawnOnClosedStream ==
    /\ netStream = "eof" => pc.network \notin {"eval", "crit", "read"}
    /\ volStream = "eof" => pc.volume \notin {"sample", "crit", "read"}

\* C10 (as claimed): when the process aborts on the failed sink connection, no
\* producer has written a slot or called notify_one.
C10_AbortBeforeProducerWork ==
    pc.display = "aborted" => (df = EmptyFields /\ ~unobserved)

\* C11: once find_cpu_temp has found no temperature input, sensors_thread has
\* returned for good: the temp slot is and stays empty, the thread prepares no
\* reading, never holds the lock, and every notify_one is the work of another
\* producer leaving its critical section; the other threads go on.
C11_NoChannelNoTemp ==
    [][pc.sensors = "done" =>
          /\ pc'.sensors = "done"
          /\ df.temp = "" /\ df'.temp = ""
          /\ new.temp = "" /\ new'.temp = ""
          /\ lock # "sensors" /\ lock' # "sensors"
          /\ notified' =>
                \E t \in Producers \ {"sensors"} : pc[t] = "crit" /\ pc'[t] # "crit"]_vars

C11_Witness ==
    /\ pc.sensors = "done" /\ pc.display = "render"
    /\ snap.time # "" /\ snap.systemstat # "" /\ snap.net # "" /\ snap.volume # ""
    /\ snap.temp = ""

\* C12: a slot of df changes only in the step in which its own producer,
\* holding the lock, leaves its critical section; so a producer's step leaves
\* the other four slots as they were and display_thread changes none.
C12_SingleWriterFrame ==
    [][\A slot \in Slots :
          df'[slot] # df[slot] =>
              /\ lock = Owner[slot]
              /\ pc[Owner[slot]] = "crit" /\ pc'[Owner[slot]] # "crit"
              /\ \A other \in Slots \ {slot} : df'[other] = df[other]]_vars

C12_Witness ==
    /\ pc.volume = "crit" /\ new.volume # df.volume
    /\ df.time # "" /\ df.systemstat # "" /\ df.temp # "" /\ df.net # ""
    /\ pc.display = "render"

\* C13: time_thread wakes from its sleep, and so makes its next write, no
\* earlier than the first minute boundary strictly after the time T of its
\* last write, T being anywhere between the clock reading before the write
\* (wrote) and the reading `now` after it (clock): the time from T to the
\* wake is at least the time from T to that boundary.
C13_ClockAlignment ==
    [][(pc.time = "sleep" /\ pc'.time = "format") =>
          LET lag == (clock - wrote) % Horizon
              slept == (clock' - clock) % Horizon
          IN /\ lag + slept >= MINUTE_MS - (wrote % MINUTE_MS)
             /\ slept >= MINUTE_MS - (clock % MINUTE_MS)]_vars

\* a write just before a boundary, `now` read on the boundary
C13_Witness ==
    /\ pc.time = "sleep"
    /\ wrote % MINUTE_MS = MINUTE_MS - TickMs
    /\ clock % MINUTE_MS = 0
    /\ sleep_time = MINUTE_MS

\* C14: the critical section that ends an evaluation of network_thread leaves
\* in the net slot the glyph for the interface named after "dev" in the answer
\* of `ip route get`: "(wifi) . " when it is in wifs, "(wire) . " when it is
\* not, and nothing when the command failed or the pattern found no interface
\* name; wifs is what get_wireless_interfaces returned at startup.
C14_NetClassification ==
    [][/\ (pc.network = "crit" /\ pc'.network # "crit") =>
             LET named == IF routeq.ok
                          THEN {routeq.val[i + 1] : i \in
                                  {j \in 1..(Len(routeq.val) - 2) :
                                      routeq.val[j] = "dev"}}
                          ELSE {}
             IN \/ named \cap (Interfaces \cup wifs) = {} /\ df'.net = ""
                \/ \E i \in named \cap wifs : df'.net = "(wifi) . "
                \/ \E i \in (named \cap Interfaces) \ wifs : df'.net = "(wire) . "
       /\ pc.network \notin {"wireless", "panic: open"} => wifs' = wifs]_vars

\* the default route has moved from a wireless interface to a wired one
C14_Witness ==
    /\ pc.network = "crit" /\ netStream = "open"
    /\ wifs = {"wlan0"}
    /\ df.net = "(wifi) . " /\ new.net = "(wire) . "

\* C15: a sample of volume_thread whose get_mute answered Ok(true) computes
\* the fragment "(mute) . ", whatever get_volume answered (any level, or Err).
C15_MutedShowsMuteGlyph ==
    (pc.volume = "crit" /\ volq[1] = Ok(TRUE)) => new.volume = "(mute) . "

\* muted, and the level query failed
C15_Witness ==
    /\ pc.volume = "crit" /\ volq[1] = Ok(TRUE) /\ ~volq[2].ok
    /\ df.volume \notin {"", "(mute) . "}

\* C16: volume_thread comes to take a sample only from a fresh subscription
\* or from a read_line that appended a line with "on sink" in it, the lines
\* read before it since the last sample having none; a line without the
\* marker is kept out of sight: no sample is taken, no slot written, no
\* notify_one called, and the thread reads on.
C16_FilterThenResample ==
    [][/\ (pc'.volume = "sample" /\ pc.volume # "sample") =>
             \/ pc.volume = "spawn" /\ volStream = "none" /\ volStream' = "open"
             \/ /\ pc.volume = "read" /\ volStream = "open"
                /\ line' # <<>> /\ LineMatches(line'[Len(line')])
                /\ \A k \in 1..(Len(line') - 1) : ~LineMatches(line'[k])
       /\ pc'.volume = "crit" => pc.volume \in {"sample", "crit"}
       /\ (pc.volume = "read" /\ line' # line /\ line' # <<>>
             /\ ~LineMatches(line'[Len(line')])) =>
             /\ pc'.volume = "read"
             /\ df' = df /\ new' = new /\ volq' = volq /\ ~notified']_vars

\* a line without the marker was read and dropped, then one with it
C16_Witness ==
    /\ pc.volume = "sample" /\ Len(line) = 2
    /\ ~LineMatches(line[1]) /\ LineMatches(line[2])
    /\ df.volume # ""

\* C17 (as claimed): network_thread goes from its read back to an evaluation
\* only when the read returned a chunk that `ip monitor` wrote to the stream.
C17_EvalOnlyAfterOutput ==
    [][(pc.network = "read" /\ pc'.network = "eval") =>
          (netStream = "open" /\ netStream' = "open")]_vars

\* C18 (as claimed): the delay for which time_thread suspends is
\* ceil(now / 60 s) * 60 s - now.
C18_DelayIsCeil ==
    pc.time = "sleep" =>
        sleep_time = ((clock + MINUTE_MS - 1) \div MINUTE_MS) * MINUTE_MS - clock

\* C18 (amended): the delay for which time_thread suspends is the time from
\* `now` to the first minute boundary strictly after it: a whole minute when
\* `now` lies on a boundary, ceil(now / 60 s) * 60 s - now otherwise; it is
\* never zero and it ends on a boundary.
C18_DelayToNextBoundary ==
    /\ pc.time = "sleep" =>
          /\ sleep_time = (IF clock % MINUTE_MS = 0 THEN MINUTE_MS
                           ELSE ((clock + MINUTE_MS - 1) \div MINUTE_MS) * MINUTE_MS
                                    - clock)
          /\ sleep_time \in 1..MINUTE_MS
          /\ (clock + sleep_time) % MINUTE_MS = 0
    /\ \A n \in NowSamples :
          SleepTime(n) = (IF n % MINUTE_MS = 0 THEN MINUTE_MS
                          ELSE ((n + MINUTE_MS - 1) \div MINUTE_MS) * MINUTE_MS - n)

\* `now` read on a minute boundary: the thread sleeps a whole minute
C18_Witness ==
    /\ pc.time = "sleep" /\ clock % MINUTE_MS = 0 /\ sleep_time = MINUTE_MS
    /\ df.time # ""

\* C19: the lock is held only by a thread inside its critical section (a
\* producer between lock() and the end of the block, display_thread between
\* the return of wait and the end of the block), never by one that sleeps,
\* reads a stream, spawns or waits for a subprocess, blocks in the condition
\* wait or talks to the X server; the holder can always take its next step,
\* and that step gives the lock up.
C19_LockOnlyInCriticalSection ==
    [][/\ lock # "free" =>
             /\ pc[lock] = (IF lock = "display" THEN "compose" ELSE "crit")
             /\ Running =>
                   ENABLED (\/ TimeWrite({0}) \/ SystemstatWrite \/ SensorsWrite
                            \/ NetWrite \/ VolWrite \/ DisplayCompose)
       /\ \A t \in Producers \cup {"display"} :
             (lock = t /\ pc'[t] # pc[t]) => lock' = "free"]_vars

\* display_thread holds the lock while every producer is suspended
C19_Witness ==
    /\ lock = "display" /\ pc.display = "compose"
    /\ pc.time = "sleep" /\ pc.systemstat = "sleep" /\ pc.sensors = "sleep"
    /\ pc.network = "read" /\ pc.volume = "read"

\* C20: a producer that has ended on a failed unwrap does not hold the lock
\* (the Mutex is not poisoned and nobody waits for it in vain), stays ended,
\* and its slot keeps the value it wrote last; the steps of the other threads
\* are as they were.
C20_PanicsOutsideTheLock ==
    [][\A t \in Producers :
          pc[t] \in ProducerPanics =>
              /\ lock # t /\ lock' # t
              /\ pc'[t] = pc[t]
              /\ \A slot \in Slots : Owner[slot] = t => df'[slot] = df[slot]]_vars

\* sensors_thread and network_thread have ended; the rest goes on and the
\* status handed to the sink still holds their last fragments
C20_Witness ==
    /\ pc.sensors = "panic: get_value" /\ pc.network = "panic: read"
    /\ df.temp # "" /\ df.net # ""
    /\ pc.display = "render" /\ inflight
    /\ snap.temp = df.temp /\ snap.net = df.net /\ snap.time # ""
    /\ lock = "time"

=============================================================================
